---------------------------- MODULE Spec2Model ----------------------------
(***************************************************************************)
(* A model of the carbon2d engine (src/engine.ts): Rectangle, AssetLoader, *)
(* the event dispatcher, Actor, Input, Scene and the Game loop.            *)
(*                                                                         *)
(* JavaScript is single threaded and every callback runs to completion, so *)
(* each action below is one whole call made from outside the engine (a     *)
(* method call by the embedding program, or a callback fired by the host). *)
(* Calls made inside a call are operators over a record W holding the      *)
(* object graph; such an operator returns the graph after the call.  An    *)
(* uncaught TypeError is the field W.thrown: once set, every remaining     *)
(* step of the running call is skipped, as the exception unwinds the stack.*)
(***************************************************************************)
EXTENDS Integers, Sequences, FiniteSets

VARIABLES
    rectThis,      \* Rectangle: the receiver of the last hitTest
    rectOther,     \* Rectangle: the argument of the last hitTest
    hitResult,     \* <<>> before hitTest was called, <<r>> after it returned r
    actorObjs,     \* Actor objects by identity: their fields
    listeners,     \* EventDispatcher._eventListeners of every dispatcher:
                   \*   listeners[o][type] is a reference into arrays, or undefinedRef
    arrays,        \* the heap of listener arrays
    sceneObjs,     \* Scene objects by identity: actors, _destroyedActors
    game,          \* the Game object's fields
    receiver,      \* the Game's InputReceiver: _keyMap, _prevKeyMap
    lastInput,     \* the Input snapshots handed out by getInput, latest last
    raf,           \* number of _loop callbacks requested and not yet run
    now,           \* the timestamp the host passed to the last _loop callback
    trace,         \* what the last call did, in order (observations)
    thrown,        \* TRUE when the last call ended with an uncaught TypeError
    lastCall,      \* the last call made from outside, with its arguments
    loader         \* the AssetLoader, its images and the promises it made

vars == <<rectThis, rectOther, hitResult, actorObjs, listeners, arrays,
          sceneObjs, game, receiver, lastInput, raf, now, trace, thrown,
          lastCall, loader>>

---------------------------------------------------------------------------
(* Bounds of the model *)

MaxCoord == 2
MaxSize == 2

(* JavaScript's undefined, among object identities (strings) *)
undefined == "undefined"

(* An unset slot of _eventListeners; array references are 1, 2, ... *)
undefinedRef == 0

---------------------------------------------------------------------------
(* Rectangle *)

Rectangle(x, y, width, height) ==
    [x |-> x, y |-> y, width |-> width, height |-> height]

hitTestTouching(this, other) ==
    LET horizontal ==
            other.x <= this.x + this.width /\ this.x <= other.x + other.width
        vertical ==
            other.y <= this.y + this.height /\ this.y <= other.y + other.height
    IN  horizontal /\ vertical

(* hitTest keeping, on each axis, only the comparison against this
   rectangle's far edge *)
hitTestOneSided(this, other) ==
    /\ other.x < this.x + this.width
    /\ other.y < this.y + this.height

hitTest(this, other) ==
    LET horizontal ==
            other.x < this.x + this.width /\ this.x < other.x + other.width
        vertical ==
            other.y < this.y + this.height /\ this.y < other.y + other.height
    IN  horizontal /\ vertical

Coords == 0..MaxCoord
Sizes == 0..MaxSize
Rectangles ==
    {Rectangle(x, y, w, h) : x \in Coords, y \in Coords, w \in Sizes, h \in Sizes}

---------------------------------------------------------------------------
(* Identities and values *)

ActorIds == {"A", "B", "C", "D"}
SceneIds == {"S1", "S2", "S3"}
(* A dispatcher that is neither an Actor nor a Scene *)
plainDispatcher == "dispatcher"
DispatcherIds == ActorIds \cup SceneIds \cup {plainDispatcher}
Topics == {"spawnactor", "destroy", "hit", "changescene"}
Keys == {"z"}

(* new GameEvent(target): the constructor stores its argument in _target *)
GameEvent(target) == [_target |-> target]

(* e.target, a property read: the value of the property when the object has
   it, undefined when it has not *)
GetTarget(e) == IF "target" \in DOMAIN e THEN e.target ELSE undefined

(* One observation of the trace *)
Obs(op, a, b, t, n) == [op |-> op, a |-> a, b |-> b, t |-> t, n |-> n]

(* The callbacks: the three closures the engine registers, and the
   embedding program's handlers ("user"), which are told apart by id and
   whose body is named by does. *)
Callback(fn, self, id, does, arg) ==
    [fn |-> fn, self |-> self, id |-> id, does |-> does, arg |-> arg]
SceneAddClosure(scene) == Callback("Scene.add", scene, "", "", "")
SceneDestroyedClosure(scene) ==
    Callback("Scene._addDestroyedActor", scene, "", "", "")
GameChangeSceneClosure == Callback("Game.changeScene", "game", "", "", "")
UserHandler(self, id, does, arg) == Callback("user", self, id, does, arg)

---------------------------------------------------------------------------
(* The object graph a call works on, and its write-back *)

World ==
    [actorObjs |-> actorObjs, listeners |-> listeners, arrays |-> arrays,
     sceneObjs |-> sceneObjs, game |-> game, receiver |-> receiver,
     lastInput |-> lastInput, raf |-> raf,
     trace |-> <<>>, thrown |-> FALSE, depth |-> 0]

(* When a call has returned no forEach is running any more, and the array
   objects _eventListeners no longer refers to are unreachable: they are
   dropped, and the surviving array of a topic becomes its array 1. *)
CollectedArrays(W) ==
    [o \in DispatcherIds |-> [t \in Topics |->
        IF W.listeners[o][t] = undefinedRef
        THEN <<>>
        ELSE <<W.arrays[o][t][W.listeners[o][t]]>>]]

CollectedListeners(W) ==
    [o \in DispatcherIds |-> [t \in Topics |->
        IF W.listeners[o][t] = undefinedRef THEN undefinedRef ELSE 1]]

Commit(W) ==
    /\ actorObjs' = W.actorObjs
    /\ listeners' = CollectedListeners(W)
    /\ arrays' = CollectedArrays(W)
    /\ sceneObjs' = W.sceneObjs
    /\ game' = W.game
    /\ receiver' = W.receiver
    /\ lastInput' = W.lastInput
    /\ raf' = W.raf
    /\ trace' = W.trace
    /\ thrown' = W.thrown

Observe(W, op, a, b, t) ==
    [W EXCEPT !.trace = Append(@, Obs(op, a, b, t, W.depth))]

(* A TypeError: reading a property of undefined *)
Throw(W) == [W EXCEPT !.thrown = TRUE]

---------------------------------------------------------------------------
(* Actor: position and hit rectangle *)

SetXNoHitArea(o, value) == [o EXCEPT !._x = value]

SetX(o, value) ==
    [o EXCEPT !._x = value, !.hitArea.x = value + o._hitAreaOffsetX]

SetY(o, value) ==
    [o EXCEPT !._y = value, !.hitArea.y = value + o._hitAreaOffsetY]

(* new Actor(x, y, hitArea): the fields before the two setters run hold no
   position yet; the constructor ends with this.x = x; this.y = y *)
ActorConstructor(x, y, hitArea) ==
    LET fresh == [hitArea |-> hitArea,
                  _hitAreaOffsetX |-> hitArea.x,
                  _hitAreaOffsetY |-> hitArea.y,
                  _x |-> 0, _y |-> 0]
    IN  SetY(SetX(fresh, x), y)

---------------------------------------------------------------------------
(* Arrays: indexOf and splice as Array.prototype defines them, 0-based *)

RECURSIVE indexOfFrom(_, _, _)
indexOfFrom(arr, v, k) ==
    IF k >= Len(arr) THEN 0 - 1
    ELSE IF arr[k + 1] = v THEN k
    ELSE indexOfFrom(arr, v, k + 1)

indexOf(arr, v) == indexOfFrom(arr, v, 0)

Max(m, n) == IF m >= n THEN m ELSE n
Min(m, n) == IF m <= n THEN m ELSE n

(* arr.splice(start, deleteCount): a negative start counts from the end *)
splice(arr, start, deleteCount) ==
    LET len == Len(arr)
        actualStart ==
            IF start < 0 THEN Max(len + start, 0) ELSE Min(start, len)
        actualDeleteCount == Min(Max(deleteCount, 0), len - actualStart)
    IN  SubSeq(arr, 1, actualStart)
            \o SubSeq(arr, actualStart + actualDeleteCount + 1, len)

(* arr[i], 0-based: undefined outside the array *)
At(arr, i) == IF i >= 0 /\ i < Len(arr) THEN arr[i + 1] ELSE undefined

---------------------------------------------------------------------------
(* EventDispatcher.  Every array object a dispatcher ever created for a    *)
(* topic is kept in W.arrays[o][type], oldest first; W.listeners[o][type]  *)
(* is the index of the one _eventListeners refers to now.                  *)

MaxDepth == 2

RECURSIVE dispatchEvent(_, _, _, _)
RECURSIVE forEachListener(_, _, _, _, _, _, _)
RECURSIVE Call(_, _, _)
RECURSIVE SceneAdd(_, _, _)

addEventListener(W, this, type, callback) ==
    LET ref == W.listeners[this][type]
    IN  IF ref = undefinedRef
        THEN [W EXCEPT !.arrays[this][type] = Append(@, <<callback>>),
                       !.listeners[this][type] = Len(W.arrays[this][type]) + 1]
        ELSE [W EXCEPT !.arrays[this][type][ref] = Append(@, callback)]

removeAllEventListener(W, this) ==
    [W EXCEPT !.listeners[this] = [t \in Topics |-> undefinedRef]]

(* listeners.forEach(callback => callback(event)) on the array object
   W.arrays[this][type][ref]: Array.prototype.forEach reads the length once,
   before the first call (len), and then visits the indices below it that
   the array still has. k is the 1-based index to visit next. *)
forEachListenerLive(W, this, type, ref, k, len, event) ==
    IF W.thrown \/ k > Len(W.arrays[this][type][ref]) THEN W
    ELSE forEachListener(Call(W, W.arrays[this][type][ref][k], event),
                         this, type, ref, k + 1, len, event)

forEachListenerBackwards(W, this, type, ref, k, len, event) ==
    IF W.thrown \/ k > len THEN W
    ELSE IF len + 1 - k > Len(W.arrays[this][type][ref])
    THEN forEachListener(W, this, type, ref, k + 1, len, event)
    ELSE forEachListener(
             Call(W, W.arrays[this][type][ref][len + 1 - k], event),
             this, type, ref, k + 1, len, event)

forEachListener(W, this, type, ref, k, len, event) ==
    IF W.thrown \/ k > len THEN W
    ELSE IF k > Len(W.arrays[this][type][ref])
    THEN forEachListener(W, this, type, ref, k + 1, len, event)
    ELSE forEachListener(Call(W, W.arrays[this][type][ref][k], event),
                         this, type, ref, k + 1, len, event)

(* The call is observed in the trace; W.depth counts the dispatchEvent
   calls on the stack, this one included, while its handlers run. *)
dispatchEvent(W, this, type, event) ==
    LET ref == W.listeners[this][type]
        W1 == [Observe(W, "dispatchEvent", this, event._target, type)
                   EXCEPT !.depth = W.depth + 1]
    IN  IF ref = undefinedRef
        THEN [W1 EXCEPT !.depth = W.depth]
        ELSE [forEachListener(W1, this, type, ref, 1,
                              Len(W.arrays[this][type][ref]), event)
                  EXCEPT !.depth = W.depth]

---------------------------------------------------------------------------
(* Actor: lifecycle events *)

spawnActor(W, this, actor) ==
    dispatchEvent(W, this, "spawnactor", GameEvent(actor))

destroy(W, this) == dispatchEvent(W, this, "destroy", GameEvent(this))

---------------------------------------------------------------------------
(* Scene *)

SceneAdd(W, this, actor) ==
    LET W1 == [W EXCEPT !.sceneObjs[this].actors = Append(@, actor)]
    IN  IF actor = undefined
        THEN Throw(W1)
        ELSE addEventListener(
                 addEventListener(W1, actor, "spawnactor", SceneAddClosure(this)),
                 actor, "destroy", SceneDestroyedClosure(this))

SceneRemove(W, this, actor) ==
    LET index == indexOf(W.sceneObjs[this].actors, actor)
    IN  [W EXCEPT !.sceneObjs[this].actors = splice(@, index, 1)]

SceneChangeScene(W, this, newScene) ==
    dispatchEvent(W, this, "changescene", GameEvent(newScene))

(* A destroy listener that takes the actor out at once *)
addDestroyedActorRemoveNow(W, this, actor) == SceneRemove(W, this, actor)

addDestroyedActor(W, this, actor) ==
    [W EXCEPT !.sceneObjs[this]._destroyedActors = Append(@, actor)]

---------------------------------------------------------------------------
(* Game.changeScene *)

GameChangeScene(W, newScene) ==
    LET W1 == [W EXCEPT !.game.currentScene = newScene]
    IN  IF newScene = undefined
        THEN Throw(W1)
        ELSE addEventListener(W1, newScene, "changescene",
                              GameChangeSceneClosure)

---------------------------------------------------------------------------
(* Calling a registered callback with the event *)

(* The scene the program's actors live in, which their handlers know *)
theScene == "S1"

UserCall(W, cb, event) ==
    CASE cb.does = "noop" -> W
      [] cb.does = "remove" -> SceneRemove(W, theScene, cb.self)
      [] cb.does = "subscribe" ->
            addEventListener(W, cb.self, cb.arg,
                             UserHandler(cb.self, "late", "noop", cb.arg))
      [] cb.does = "clear" -> removeAllEventListener(W, cb.self)
      [] cb.does = "publish" ->
            IF W.depth < MaxDepth
            THEN dispatchEvent(W, cb.self, cb.arg, event)
            ELSE W
      [] cb.does = "destroy" -> destroy(W, cb.self)

Call(W, cb, event) ==
    CASE cb.fn = "Scene.add" -> SceneAdd(W, cb.self, GetTarget(event))
      [] cb.fn = "Scene._addDestroyedActor" ->
            addDestroyedActor(W, cb.self, GetTarget(event))
      [] cb.fn = "Game.changeScene" -> GameChangeScene(W, GetTarget(event))
      [] cb.fn = "user" ->
            UserCall(Observe(W, "handler", cb.id, event._target, cb.arg),
                     cb, event)

---------------------------------------------------------------------------
(* Scene: the passes of one frame *)

(* actor.update(gameInfo, input).  Actor.update is empty; a subclass moves,
   destroys itself, spawns a child or asks for a scene change.  What the
   override does in this frame is the input beh. *)
Behaviour(do, v, arg) == [do |-> do, v |-> v, arg |-> arg]

ActorUpdate(W, this, scene, beh) ==
    LET W1 == Observe(W, "update", this, "", "")
    IN  CASE beh.do = "noop" -> W1
          [] beh.do = "move" ->
                [W1 EXCEPT !.actorObjs[this] = SetX(@, beh.v)]
          [] beh.do = "destroy" -> destroy(W1, this)
          [] beh.do = "spawn" -> spawnActor(W1, this, beh.arg)
          [] beh.do = "changeScene" -> SceneChangeScene(W1, scene, beh.arg)
          [] beh.do = "destroyInRender" -> W1
          [] beh.do = "add" -> SceneAdd(W1, scene, beh.arg)
          [] beh.do = "remove" -> SceneRemove(W1, scene, beh.arg)

(* this.actors.forEach(actor => actor.update(gameInfo, input)); k is the
   1-based index to visit next, len the length read before the first call *)
RECURSIVE forEachUpdate(_, _, _, _, _)
forEachUpdate(W, this, k, len, ub) ==
    IF W.thrown \/ k > len THEN W
    ELSE IF k > Len(W.sceneObjs[this].actors)
    THEN forEachUpdate(W, this, k + 1, len, ub)
    ELSE LET actor == W.sceneObjs[this].actors[k]
         IN  IF actor = undefined
             THEN Throw(W)
             ELSE forEachUpdate(ActorUpdate(W, actor, this, ub[actor]),
                                this, k + 1, len, ub)

updateAll(W, this, ub) ==
    forEachUpdate(W, this, 1, Len(W.sceneObjs[this].actors), ub)

(* The two nested loops of _hitTest, from the pair (i, j), 0-based *)
RECURSIVE hitTestFromSkipLast(_, _, _, _, _)
hitTestFromSkipLast(W, this, i, j, length) ==
    IF W.thrown \/ i >= length - 1 THEN W
    ELSE IF j >= length - 1
    THEN hitTestFromSkipLast(W, this, i + 1, i + 2, length)
    ELSE LET obj1 == At(W.sceneObjs[this].actors, i)
             obj2 == At(W.sceneObjs[this].actors, j)
         IN  IF obj1 = undefined \/ obj2 = undefined
             THEN Throw(W)
             ELSE LET hit == hitTest(W.actorObjs[obj1].hitArea,
                                     W.actorObjs[obj2].hitArea)
                      W1 == IF hit
                            THEN dispatchEvent(W, obj1, "hit", GameEvent(obj2))
                            ELSE W
                      W2 == IF hit /\ ~W1.thrown
                            THEN dispatchEvent(W1, obj2, "hit", GameEvent(obj1))
                            ELSE W1
                  IN  hitTestFromSkipLast(W2, this, i, j + 1, length)

RECURSIVE hitTestFrom(_, _, _, _, _)
hitTestFrom(W, this, i, j, length) ==
    IF W.thrown \/ i >= length - 1 THEN W
    ELSE IF j >= length
    THEN hitTestFrom(W, this, i + 1, i + 2, length)
    ELSE LET obj1 == At(W.sceneObjs[this].actors, i)
             obj2 == At(W.sceneObjs[this].actors, j)
         IN  IF obj1 = undefined \/ obj2 = undefined
             THEN Throw(W)
             ELSE LET hit == hitTest(W.actorObjs[obj1].hitArea,
                                     W.actorObjs[obj2].hitArea)
                      W1 == IF hit
                            THEN dispatchEvent(W, obj1, "hit", GameEvent(obj2))
                            ELSE W
                      W2 == IF hit /\ ~W1.thrown
                            THEN dispatchEvent(W1, obj2, "hit", GameEvent(obj1))
                            ELSE W1
                  IN  hitTestFrom(W2, this, i, j + 1, length)

SceneHitTest(W, this) ==
    IF W.thrown THEN W
    ELSE hitTestFrom(Observe(W, "_hitTest", this,
                             W.sceneObjs[this].actors, ""),
                     this, 0, 1, Len(W.sceneObjs[this].actors))

(* this._destroyedActors.forEach(actor => this.remove(actor)) *)
RECURSIVE forEachRemove(_, _, _, _)
forEachRemove(W, this, k, len) ==
    IF k > len THEN W
    ELSE IF k > Len(W.sceneObjs[this]._destroyedActors)
    THEN forEachRemove(W, this, k + 1, len)
    ELSE forEachRemove(
             SceneRemove(W, this, W.sceneObjs[this]._destroyedActors[k]),
             this, k + 1, len)

disposeDestroyedActors(W, this) ==
    IF W.thrown THEN W
    ELSE LET W1 == forEachRemove(Observe(W, "_disposeDestroyedActors",
                                         this, "", ""),
                                 this, 1,
                                 Len(W.sceneObjs[this]._destroyedActors))
         IN  [W1 EXCEPT !.sceneObjs[this]._destroyedActors = <<>>]

clearScreen(W, this) ==
    IF W.thrown THEN W ELSE Observe(W, "_clearScreen", this, "", "")

(* actor.render(target).  Actor.render is empty; a subclass draws, and may
   destroy itself while it does. *)
ActorRender(W, this, ub) ==
    LET W1 == Observe(W, "render", this, "", "")
    IN  IF this \in DOMAIN ub /\ ub[this].do = "destroyInRender"
        THEN destroy(W1, this)
        ELSE W1

(* this.actors.forEach(obj => obj.render(this.renderingTarget)) *)
RECURSIVE forEachRender(_, _, _, _, _)
forEachRender(W, this, k, len, ub) ==
    IF W.thrown \/ k > len THEN W
    ELSE IF k > Len(W.sceneObjs[this].actors)
    THEN forEachRender(W, this, k + 1, len, ub)
    ELSE LET obj == W.sceneObjs[this].actors[k]
         IN  IF obj = undefined
             THEN Throw(W)
             ELSE forEachRender(ActorRender(W, obj, ub), this, k + 1, len, ub)

renderAll(W, this, ub) ==
    IF W.thrown THEN W
    ELSE forEachRender(W, this, 1, Len(W.sceneObjs[this].actors), ub)

SceneUpdate(W, this, ub) ==
    renderAll(
        clearScreen(
            disposeDestroyedActors(
                SceneHitTest(
                    updateAll(Observe(W, "Scene.update", this, "", ""),
                              this, ub),
                    this),
                this),
            this),
        this, ub)

---------------------------------------------------------------------------
(* InputReceiver and Input.  A key map is a function from the keys that    *)
(* were set to their state.                                                *)

emptyMap == [k \in {} |-> FALSE]

MapSet(map, key, value) ==
    [k \in DOMAIN map \cup {key} |-> IF k = key THEN value ELSE map[k]]

Input(keyMap, prevKeyMap) == [keyMap |-> keyMap, prevKeyMap |-> prevKeyMap]

(* Input._getKeyFromMap: the stored value, false for a key not in the map *)
getKeyFromMap(keyName, map) ==
    IF keyName \in DOMAIN map THEN map[keyName] ELSE FALSE

getPrevKey(input, keyName) == getKeyFromMap(keyName, input.prevKeyMap)

getKey(input, keyName) == getKeyFromMap(keyName, input.keyMap)

getKeyDown(input, keyName) ==
    LET prevDown == getPrevKey(input, keyName)
        currentDown == getKey(input, keyName)
    IN  ~prevDown /\ currentDown

getKeyUp(input, keyName) ==
    LET prevDown == getPrevKey(input, keyName)
        currentDown == getKey(input, keyName)
    IN  prevDown /\ ~currentDown

(* The Input snapshots handed out so far, of which the last two are kept *)
Handed(inputs, input) ==
    IF inputs = <<>> THEN <<input>> ELSE <<inputs[Len(inputs)], input>>

(* getInput that leaves _prevKeyMap as it is *)
getInputKeepPrev(W) ==
    LET keyMap == W.receiver._keyMap
        prevKeyMap == W.receiver._prevKeyMap
    IN  [Observe(W, "getInput", "", "", "")
            EXCEPT !.lastInput = Handed(@, Input(keyMap, prevKeyMap))]

(* new Map(m) is a copy: the Input holds the maps' contents at the call *)
getInput(W) ==
    LET keyMap == W.receiver._keyMap
        prevKeyMap == W.receiver._prevKeyMap
    IN  [Observe(W, "getInput", "", "", "")
            EXCEPT !.receiver._prevKeyMap = W.receiver._keyMap,
                   !.lastInput = Handed(@, Input(keyMap, prevKeyMap))]

---------------------------------------------------------------------------
(* Game *)

(* const accuracy = 0.9, in tenths *)
accuracyTenths == 9

(* 1 / elapsedSec, kept as the fraction 1000 / elapsedMs *)
Fps(num, den) == [num |-> num, den |-> den]

GameConstructor(maxFps) ==
    [maxFps |-> maxFps, currentFps |-> Fps(0, 1), _prevTimestamp |-> 0,
     currentScene |-> undefined]

(* elapsedSec <= frameTime, with elapsedSec = elapsedMs / 1000 and
   frameTime = (1 / maxFps) * 0.9, cleared of its denominators *)
FrameGatedStrict(elapsedMs, maxFps) ==
    10 * elapsedMs * maxFps < accuracyTenths * 1000

FrameGated(elapsedMs, maxFps) ==
    10 * elapsedMs * maxFps <= accuracyTenths * 1000

requestAnimationFrame(W) == [W EXCEPT !.raf = @ + 1]

(* The callback _loop(timestamp); ub is what the actors' update overrides
   do in this frame.  The host has taken the callback off its list. *)
Loop(W, timestamp, ub) ==
    LET W0 == [W EXCEPT !.raf = @ - 1]
        elapsedMs == timestamp - W.game._prevTimestamp
    IN  IF FrameGated(elapsedMs, W.game.maxFps)
        THEN requestAnimationFrame(W0)
        ELSE LET W1 == [W0 EXCEPT !.game._prevTimestamp = timestamp,
                                  !.game.currentFps = Fps(1000, elapsedMs)]
                 W2 == getInput(W1)
                 W3 == IF W2.game.currentScene = undefined
                       THEN Throw(W2)
                       ELSE SceneUpdate(W2, W2.game.currentScene, ub)
             IN  IF W3.thrown THEN W3 ELSE requestAnimationFrame(W3)

---------------------------------------------------------------------------
(* AssetLoader.  An image is "none" before new Image(), "loading" once its *)
(* src is set, then "complete" after the host fired 'load' on it or        *)
(* "broken" after the host fired 'error' on it.  A promise is "pending",   *)
(* "fulfilled" or "rejected".                                              *)

ImageNames == {"player", "enemy", "shot"}
MaxLoadAll == 2

AssetLoaderConstructor ==
    [_promises |-> <<>>,
     _assets |-> [n \in ImageNames |-> undefined],
     img |-> [n \in ImageNames |-> "none"],
     all |-> <<>>]

(* new Promise((resolve, reject) => img.addEventListener('load', ...)) *)
NewPromise(name) == [img |-> name, state |-> "pending"]

addImage(L, name) ==
    [L EXCEPT !.img[name] = "loading",
              !._promises = Append(@, NewPromise(name))]

(* The 'load' listener of addImage: this._assets.set(name, img); resolve(img) *)
onImageLoad(L, name) ==
    [L EXCEPT !._assets[name] = name,
              !._promises = [k \in DOMAIN L._promises |->
                                IF L._promises[k].img = name
                                THEN [L._promises[k] EXCEPT !.state = "fulfilled"]
                                ELSE L._promises[k]]]

(* Promise.all over the promises it was given, then p => this._assets:
   rejected when one of them is rejected, fulfilled when all are fulfilled *)
PromiseAllThen(promises, awaits) ==
    IF \E k \in awaits : promises[k].state = "rejected" THEN "rejected"
    ELSE IF \A k \in awaits : promises[k].state = "fulfilled" THEN "fulfilled"
    ELSE "pending"

(* loadAll() hands Promise.all the promises made so far *)
loadAll(L) ==
    [L EXCEPT !.all = Append(@, [awaits |-> 1..Len(L._promises),
                                 state |-> "pending"])]

(* The promise jobs the host runs when the calling script or listener
   has returned *)
RunJobs(L) ==
    [L EXCEPT !.all = [i \in DOMAIN L.all |->
                          IF L.all[i].state = "pending"
                          THEN [L.all[i] EXCEPT !.state =
                                    PromiseAllThen(L._promises, L.all[i].awaits)]
                          ELSE L.all[i]]]

---------------------------------------------------------------------------
(* The objects as their constructors leave them *)

defaultHitArea == Rectangle(0, 0, 2, 1)

NoListeners == [o \in DispatcherIds |-> [t \in Topics |-> undefinedRef]]
NoArrays == [o \in DispatcherIds |-> [t \in Topics |-> <<>>]]
SceneConstructor == [actors |-> <<>>, _destroyedActors |-> <<>>]
InputReceiverConstructor == [_keyMap |-> emptyMap, _prevKeyMap |-> emptyMap]
ModelMaxFps == 450
NoCall == [op |-> "", a |-> "", b |-> "", t |-> "", n |-> 0]
CallOf(op, a, b, t, n) == [op |-> op, a |-> a, b |-> b, t |-> t, n |-> n]

(* The callbacks registered under a topic now, in registration order *)
Registered(ls, as, o, type) ==
    IF ls[o][type] = undefinedRef THEN <<>> ELSE as[o][type][ls[o][type]]

rectVars == <<rectThis, rectOther, hitResult>>
objVars == <<actorObjs, listeners, arrays, sceneObjs, game, receiver,
             lastInput, raf, trace, thrown>>

InitRect ==
    /\ rectThis = Rectangle(0, 0, 0, 0)
    /\ rectOther = Rectangle(0, 0, 0, 0)
    /\ hitResult = <<>>

InitObjects ==
    /\ actorObjs = [a \in ActorIds |-> ActorConstructor(0, 0, defaultHitArea)]
    /\ listeners = NoListeners
    /\ arrays = NoArrays
    /\ sceneObjs = [s \in SceneIds |-> SceneConstructor]
    /\ game = GameConstructor(ModelMaxFps)
    /\ receiver = InputReceiverConstructor
    /\ lastInput = <<>>
    /\ raf = 0
    /\ now = 0
    /\ trace = <<>>
    /\ thrown = FALSE
    /\ lastCall = NoCall
    /\ loader = AssetLoaderConstructor

---------------------------------------------------------------------------
(* SpecRect: two rectangles and a call of hitTest *)

RectInit ==
    /\ rectThis \in Rectangles
    /\ rectOther \in Rectangles
    /\ hitResult = <<>>
    /\ InitObjects

RectHitTest ==
    /\ hitResult = <<>>
    /\ hitResult' = <<hitTest(rectThis, rectOther)>>
    /\ UNCHANGED <<loader, rectThis, rectOther, objVars, now, lastCall>>

(* The program asks the other rectangle the same question *)
RectHitTestReverse ==
    /\ Len(hitResult) = 1
    /\ hitResult' = Append(hitResult, hitTest(rectOther, rectThis))
    /\ UNCHANGED <<loader, rectThis, rectOther, objVars, now, lastCall>>

RectNext == RectHitTest \/ RectHitTestReverse

SpecRect == RectInit /\ [][RectNext]_vars

---------------------------------------------------------------------------
(* SpecActor: one actor is constructed, then x and y are assigned.  Every  *)
(* actor owns the Rectangle it was constructed with.                       *)

ActorNew ==
    \E x \in Coords, y \in Coords, hitArea \in Rectangles :
        /\ hitArea.width = 1 /\ hitArea.height = 1
        /\ actorObjs' = [actorObjs EXCEPT !["A"] =
                             ActorConstructor(x, y, hitArea)]
        /\ lastCall' = CallOf("new Actor", "A", "", "", 0)
        /\ UNCHANGED <<loader, rectVars, listeners, arrays, sceneObjs, game,
                       receiver, lastInput, raf, trace, thrown, now>>

ActorSetX ==
    \E value \in Coords :
        /\ lastCall.op # ""
        /\ actorObjs' = [actorObjs EXCEPT !["A"] = SetX(@, value)]
        /\ lastCall' = CallOf("set x", "A", "", "", value)
        /\ UNCHANGED <<loader, rectVars, listeners, arrays, sceneObjs, game,
                       receiver, lastInput, raf, trace, thrown, now>>

ActorSetY ==
    \E value \in Coords :
        /\ lastCall.op # ""
        /\ actorObjs' = [actorObjs EXCEPT !["A"] = SetY(@, value)]
        /\ lastCall' = CallOf("set y", "A", "", "", value)
        /\ UNCHANGED <<loader, rectVars, listeners, arrays, sceneObjs, game,
                       receiver, lastInput, raf, trace, thrown, now>>

ActorSpecInit == InitRect /\ InitObjects

ActorNext == ActorNew \/ ActorSetX \/ ActorSetY

SpecActor == ActorSpecInit /\ [][ActorNext]_vars

---------------------------------------------------------------------------
(* SpecDispatcher: one EventDispatcher, the handlers the embedding program *)
(* registers on it, and whole calls of its three methods.                  *)

MaxListeners == 3

DispTopics == {"hit", "destroy"}
DispEvents == {GameEvent("A"), GameEvent("B")}

(* The program's handlers: h1 only records the call, h2 subscribes a new
   handler ("late") to the topic it is registered under, h3 calls
   removeAllEventListener, h4 publishes the event it got once more under
   its own topic (unless MaxDepth publishes are already running). *)
HandlerIds == {"h1", "h2", "h3", "h4"}
DoesOf(id) ==
    CASE id = "h1" -> "noop"
      [] id = "h2" -> "subscribe"
      [] id = "h3" -> "clear"
      [] id = "h4" -> "publish"

RegisteredCount(W, o) ==
    LET C == CollectedArrays(W)
    IN  Len(Registered(CollectedListeners(W), C, o, "hit"))
            + Len(Registered(CollectedListeners(W), C, o, "destroy"))

DispAddEventListener ==
    \E type \in DispTopics, id \in HandlerIds :
        LET W == addEventListener(World, plainDispatcher, type,
                     UserHandler(plainDispatcher, id, DoesOf(id), type))
        IN  /\ RegisteredCount(W, plainDispatcher) <= MaxListeners
            /\ Commit(W)
            /\ lastCall' = CallOf("addEventListener", id, "", type, 0)
            /\ UNCHANGED <<loader, rectVars, now>>

DispRemoveAllEventListener ==
    /\ Commit(removeAllEventListener(World, plainDispatcher))
    /\ lastCall' = CallOf("removeAllEventListener", "", "", "", 0)
    /\ UNCHANGED <<loader, rectVars, now>>

DispDispatchEvent ==
    \E type \in DispTopics, event \in DispEvents :
        LET W == dispatchEvent(World, plainDispatcher, type, event)
        IN  /\ RegisteredCount(W, plainDispatcher) <= MaxListeners + 1
            /\ Commit(W)
            /\ lastCall' = CallOf("dispatchEvent", plainDispatcher,
                                  event._target, type, 0)
            /\ UNCHANGED <<loader, rectVars, now>>

DispInit == InitRect /\ InitObjects

DispNext ==
    DispAddEventListener \/ DispRemoveAllEventListener \/ DispDispatchEvent

SpecDispatcher == DispInit /\ [][DispNext]_vars

---------------------------------------------------------------------------
(* The embedding program's actors.  A subclass registers its own handlers  *)
(* in its constructor: B destroys itself when it is hit, C only takes note *)
(* of a hit, A and D have no hit handler.  They stand at x = 0, 1, 2 with  *)
(* hit rectangles two wide: A and B overlap, B and C overlap, A and C only *)
(* touch.  D is the actor a spawning actor constructs.                     *)

spawnedChild == "D"
SceneActorIds == ActorIds \ {spawnedChild}

ProgramActors ==
    [a \in ActorIds |->
        ActorConstructor(CASE a = "A" -> 0 [] a = "B" -> 1 [] a = "C" -> 2
                           [] OTHER -> 0,
                         0, defaultHitArea)]

WithProgramHandlers(W) ==
    addEventListener(
        addEventListener(W, "B", "hit", UserHandler("B", "hitB", "destroy", "hit")),
        "C", "hit", UserHandler("C", "hitC", "noop", "hit"))

Range(arr) == {arr[k] : k \in 1..Len(arr)}

ProgramInit(W) ==
    /\ InitRect
    /\ actorObjs = W.actorObjs
    /\ listeners = CollectedListeners(W)
    /\ arrays = CollectedArrays(W)
    /\ sceneObjs = W.sceneObjs
    /\ game = W.game
    /\ receiver = W.receiver
    /\ lastInput = <<>>
    /\ raf = 0
    /\ now = 0
    /\ trace = <<>>
    /\ thrown = FALSE
    /\ lastCall = NoCall
    /\ loader = AssetLoaderConstructor

ConstructedWorld ==
    WithProgramHandlers(
        [actorObjs |-> ProgramActors, listeners |-> NoListeners,
         arrays |-> NoArrays,
         sceneObjs |-> [s \in SceneIds |-> SceneConstructor],
         game |-> GameConstructor(ModelMaxFps),
         receiver |-> InputReceiverConstructor,
         lastInput |-> <<>>, raf |-> 0,
         trace |-> <<>>, thrown |-> FALSE, depth |-> 0])

---------------------------------------------------------------------------
(* SpecScene: one scene, driven by whole calls of add, remove and update.  *)
(* The program adds an actor once, and makes no further call once one      *)
(* ended with a TypeError.                                                 *)

MaxActors == 3

SceneBehaviours ==
    {Behaviour("noop", 0, ""), Behaviour("destroy", 0, ""),
     Behaviour("spawn", 0, spawnedChild)}
        \cup {Behaviour("move", v, "") : v \in Coords}

ExtSceneAdd ==
    \E actor \in SceneActorIds :
        /\ ~thrown
        /\ Registered(listeners, arrays, actor, "destroy") = <<>>
        /\ Len(sceneObjs[theScene].actors) < MaxActors
        /\ Commit(SceneAdd(World, theScene, actor))
        /\ lastCall' = CallOf("Scene.add", theScene, actor, "", 0)
        /\ UNCHANGED <<loader, rectVars, now>>

ExtSceneRemove ==
    \E actor \in SceneActorIds :
        /\ ~thrown
        /\ Commit(SceneRemove(World, theScene, actor))
        /\ lastCall' = CallOf("Scene.remove", theScene, actor, "", 0)
        /\ UNCHANGED <<loader, rectVars, now>>

ExtSceneUpdate ==
    \E ub \in [Range(sceneObjs[theScene].actors) -> SceneBehaviours] :
        /\ ~thrown
        /\ Commit(SceneUpdate(World, theScene, ub))
        /\ lastCall' = CallOf("Scene.update", theScene, "", "", 0)
        /\ UNCHANGED <<loader, rectVars, now>>

SceneInit == ProgramInit(ConstructedWorld)

SceneNext == ExtSceneAdd \/ ExtSceneRemove \/ ExtSceneUpdate

SpecScene == SceneInit /\ [][SceneNext]_vars

---------------------------------------------------------------------------
(* SpecSceneDestroy: one scene whose actors are destroyed at any moment:   *)
(* in their update, in a hit handler (B), in their render, and between two *)
(* frames.  No actor moves or spawns.                                      *)

MaxPending == 2

DestroyBehaviours ==
    {Behaviour("noop", 0, ""), Behaviour("destroy", 0, ""),
     Behaviour("destroyInRender", 0, "")}

ExtSceneUpdateDestroying ==
    \E ub \in [Range(sceneObjs[theScene].actors) -> DestroyBehaviours] :
        /\ ~thrown
        /\ Commit(SceneUpdate(World, theScene, ub))
        /\ lastCall' = CallOf("Scene.update", theScene, "", "", 0)
        /\ UNCHANGED <<loader, rectVars, now>>

(* An actor of the scene is destroyed between two frames *)
ExtActorDestroy ==
    \E actor \in Range(sceneObjs[theScene].actors) \cap SceneActorIds :
        /\ ~thrown
        /\ Len(sceneObjs[theScene]._destroyedActors) < MaxPending
        /\ Commit(destroy(World, actor))
        /\ lastCall' = CallOf("destroy", actor, "", "", 0)
        /\ UNCHANGED <<loader, rectVars, now>>

SceneDestroyNext ==
    ExtSceneAdd \/ ExtSceneUpdateDestroying \/ ExtActorDestroy

SpecSceneDestroy == SceneInit /\ [][SceneDestroyNext]_vars

---------------------------------------------------------------------------
(* SpecSceneEdit: one scene whose actors call Scene.add and Scene.remove   *)
(* while a pass is iterating.  In its update an actor does nothing, takes  *)
(* itself out of the scene, or adds an actor that was never added; A takes *)
(* itself out of the scene when it is hit.  No actor spawns or destroys in *)
(* its update.                                                             *)

EditingWorld ==
    addEventListener(ConstructedWorld, "A", "hit",
                     UserHandler("A", "hitA", "remove", "hit"))

EditBehaviours(actor) ==
    {Behaviour("noop", 0, ""), Behaviour("remove", 0, actor)}
        \cup {Behaviour("add", 0, a) : a \in SceneActorIds}

Adders(ub) == {a \in DOMAIN ub : ub[a].do = "add"}

ExtSceneUpdateEditing ==
    \E ub \in [Range(sceneObjs[theScene].actors)
                  -> UNION {EditBehaviours(a) : a \in SceneActorIds}] :
        /\ ~thrown
        /\ \A a \in DOMAIN ub : ub[a] \in EditBehaviours(a)
        /\ \A a \in Adders(ub) :
              /\ Registered(listeners, arrays, ub[a].arg, "destroy") = <<>>
              /\ \A b \in Adders(ub) : ub[a].arg = ub[b].arg => a = b
        /\ Commit(SceneUpdate(World, theScene, ub))
        /\ lastCall' = CallOf("Scene.update", theScene, "", "", 0)
        /\ UNCHANGED <<loader, rectVars, now>>

SceneEditInit == ProgramInit(EditingWorld)

SceneEditNext == ExtSceneAdd \/ ExtSceneUpdateEditing

SpecSceneEdit == SceneEditInit /\ [][SceneEditNext]_vars

---------------------------------------------------------------------------
(* SpecGame: the program has constructed the game and three scenes, made   *)
(* S1 the current scene, added A and B to S1 and C to S2.  Then start(),   *)
(* the host's _loop callbacks and key events, and scene changes asked for  *)
(* between two callbacks.                                                  *)

MaxTime == 6

BootedWorld ==
    SceneAdd(
        SceneAdd(
            SceneAdd(GameChangeScene(ConstructedWorld, "S1"), "S1", "A"),
            "S1", "B"),
        "S2", "C")

GameBehaviours(scene) ==
    {Behaviour("noop", 0, ""), Behaviour("destroy", 0, ""),
     Behaviour("spawn", 0, spawnedChild)}
        \cup {Behaviour("changeScene", 0, s) : s \in SceneIds \ {scene}}

ActorsOf(scene) ==
    IF scene \in SceneIds THEN Range(sceneObjs[scene].actors) ELSE {}

GameStart ==
    /\ raf = 0
    /\ ~thrown
    /\ lastCall.op = ""
    /\ Commit(requestAnimationFrame(World))
    /\ lastCall' = CallOf("start", "game", "", "", 0)
    /\ UNCHANGED <<loader, rectVars, now>>

GameLoop ==
    \E timestamp \in (now + 1)..MaxTime :
        \E ub \in [ActorsOf(game.currentScene)
                       -> GameBehaviours(game.currentScene)] :
            /\ raf > 0
            /\ Commit(Loop(World, timestamp, ub))
            /\ now' = timestamp
            /\ lastCall' = CallOf("_loop", "game", "", "", timestamp)
            /\ UNCHANGED <<loader, rectVars>>

KeyDown ==
    \E key \in Keys :
        /\ raf > 0
        /\ receiver' = [receiver EXCEPT !._keyMap = MapSet(@, key, TRUE)]
        /\ trace' = <<>>
        /\ lastCall' = CallOf("keydown", key, "", "", 0)
        /\ UNCHANGED <<loader, rectVars, actorObjs, listeners, arrays, sceneObjs,
                       game, lastInput, raf, now, thrown>>

KeyUp ==
    \E key \in Keys :
        /\ raf > 0
        /\ receiver' = [receiver EXCEPT !._keyMap = MapSet(@, key, FALSE)]
        /\ trace' = <<>>
        /\ lastCall' = CallOf("keyup", key, "", "", 0)
        /\ UNCHANGED <<loader, rectVars, actorObjs, listeners, arrays, sceneObjs,
                       game, lastInput, raf, now, thrown>>

ExtSceneChangeScene ==
    \E scene \in SceneIds, newScene \in SceneIds :
        /\ raf > 0
        /\ scene # newScene
        /\ Commit(SceneChangeScene(World, scene, newScene))
        /\ lastCall' = CallOf("Scene.changeScene", scene, newScene, "", 0)
        /\ UNCHANGED <<loader, rectVars, now>>

(* The program itself switches to a scene the game has not shown yet *)
ExtGameChangeScene ==
    \E newScene \in SceneIds :
        /\ raf > 0
        /\ ~thrown
        /\ game.currentScene # undefined
        /\ Registered(listeners, arrays, newScene, "changescene") = <<>>
        /\ Commit(GameChangeScene(World, newScene))
        /\ lastCall' = CallOf("Game.changeScene", "game", newScene, "", 0)
        /\ UNCHANGED <<loader, rectVars, now>>

GameInit == ProgramInit(BootedWorld)

GameNext ==
    \/ GameStart \/ GameLoop \/ KeyDown \/ KeyUp
    \/ ExtSceneChangeScene \/ ExtGameChangeScene

SpecGame == GameInit /\ [][GameNext]_vars

---------------------------------------------------------------------------
(* SpecLoader: the program registers images, each name once, and calls     *)
(* loadAll; the host fires 'load' or 'error' on an image that is loading.  *)

LoaderAddImage ==
    \E name \in ImageNames :
        /\ loader.img[name] = "none"
        /\ loader' = RunJobs(addImage(loader, name))
        /\ UNCHANGED <<rectVars, objVars, now, lastCall>>

LoaderLoadAll ==
    /\ Len(loader.all) < MaxLoadAll
    /\ loader' = RunJobs(loadAll(loader))
    /\ UNCHANGED <<rectVars, objVars, now, lastCall>>

ImageLoad ==
    \E name \in ImageNames :
        /\ loader.img[name] = "loading"
        /\ loader' = RunJobs(onImageLoad([loader EXCEPT !.img[name] = "complete"],
                                         name))
        /\ UNCHANGED <<rectVars, objVars, now, lastCall>>

(* No listener is registered for 'error' *)
ImageError ==
    \E name \in ImageNames :
        /\ loader.img[name] = "loading"
        /\ loader' = RunJobs([loader EXCEPT !.img[name] = "broken"])
        /\ UNCHANGED <<rectVars, objVars, now, lastCall>>

LoaderInit == InitRect /\ InitObjects

LoaderNext == LoaderAddImage \/ LoaderLoadAll \/ ImageLoad \/ ImageError

SpecLoader == LoaderInit /\ [][LoaderNext]_vars

---------------------------------------------------------------------------
(* Claims about Rectangle, checked under SpecRect *)

(* The integer points of the half-open interval [lo, lo + size) *)
HalfOpen(lo, size) == {n \in 0..(2 * MaxCoord + 2 * MaxSize + 4) : lo <= n /\ n < lo + size}

IntervalsIntersect(a, b) ==
    /\ HalfOpen(a.x, a.width) \cap HalfOpen(b.x, b.width) # {}
    /\ HalfOpen(a.y, a.height) \cap HalfOpen(b.y, b.height) # {}

Positive(r) == r.width > 0 /\ r.height > 0

(* C10 as stated: for all rectangles, the zero-width and zero-height ones
   included, hitTest answers true exactly when the half-open intervals
   intersect on both axes. *)
C10_OverlapsIffIntervalsIntersect_AllRectangles ==
    hitResult # <<>> =>
        (hitResult[1] <=> IntervalsIntersect(rectThis, rectOther))

(* C10 amended: for all rectangles of positive width and height, hitTest
   answers true exactly when the half-open intervals [x, x + width) intersect
   and the intervals [y, y + height) intersect; rectangles that only touch
   along an edge do not overlap, rectangles one unit deeper do. *)
C10_OverlapsIffIntervalsIntersect ==
    (hitResult # <<>> /\ Positive(rectThis) /\ Positive(rectOther)) =>
        /\ hitResult[1] <=> IntervalsIntersect(rectThis, rectOther)
        /\ rectOther.x = rectThis.x + rectThis.width => ~hitResult[1]
        /\ (rectOther.x = rectThis.x + rectThis.width - 1
               /\ rectOther.y = rectThis.y) => hitResult[1]

(* hitTest has answered for two positive rectangles that touch along an
   edge, and the answer is false. *)
C10_Witness ==
    /\ hitResult = <<FALSE>>
    /\ Positive(rectThis) /\ Positive(rectOther)
    /\ rectOther.x = rectThis.x + rectThis.width
    /\ rectOther.y = rectThis.y

(* C11: for all rectangles a and b, a.hitTest(b) answers what b.hitTest(a)
   answers. *)
C11_OverlapIsSymmetric ==
    Len(hitResult) = 2 => hitResult[1] = hitResult[2]

(* Both calls have answered true for two rectangles of different place and
   size. *)
C11_Witness ==
    /\ hitResult = <<TRUE, TRUE>>
    /\ rectThis.x # rectOther.x
    /\ rectThis.width # rectOther.width

---------------------------------------------------------------------------
(* Claims about AssetLoader, checked under SpecLoader *)

ImageOf(L, k) == L.img[L._promises[k].img]

(* C12: a loadAll promise is fulfilled only when every image registered
   before the call has loaded, and when one of those images has failed and
   none of them is still loading (no event is left that could settle it)
   the promise is rejected, not pending. *)
C12_FailedLoadRejectsLoadAll ==
    \A i \in DOMAIN loader.all :
        LET c == loader.all[i]
        IN  /\ c.state = "fulfilled" =>
                  \A k \in c.awaits : ImageOf(loader, k) = "complete"
            /\ ( /\ \E k \in c.awaits : ImageOf(loader, k) = "broken"
                 /\ \A k \in c.awaits : ImageOf(loader, k) # "loading" )
                  => c.state = "rejected"

---------------------------------------------------------------------------
(* Claims about Actor, checked under SpecActor *)

(* C7: for every actor, after construction and after any assignments to x
   and y, hitArea.x = x + offsetX and hitArea.y = y + offsetY, and no step
   changes the offsets captured at construction. *)
C7_HitAreaFollowsPosition ==
    /\ [](\A a \in ActorIds :
            /\ actorObjs[a].hitArea.x
                   = actorObjs[a]._x + actorObjs[a]._hitAreaOffsetX
            /\ actorObjs[a].hitArea.y
                   = actorObjs[a]._y + actorObjs[a]._hitAreaOffsetY)
    /\ [][\A a \in ActorIds :
             lastCall'.op \in {"set x", "set y"} =>
                 /\ actorObjs'[a]._hitAreaOffsetX = actorObjs[a]._hitAreaOffsetX
                 /\ actorObjs'[a]._hitAreaOffsetY = actorObjs[a]._hitAreaOffsetY
         ]_vars

(* An actor constructed with a hit rectangle off its origin has been moved
   by an assignment to x. *)
C7_Witness ==
    /\ lastCall.op = "set x"
    /\ actorObjs["A"]._hitAreaOffsetX = 1
    /\ actorObjs["A"]._hitAreaOffsetY = 2
    /\ actorObjs["A"]._x = 2
    /\ actorObjs["A"].hitArea.x = 3

---------------------------------------------------------------------------
(* Claims about EventDispatcher, checked under SpecDispatcher *)

(* The handler calls a trace shows at publish depth n, as <<id, event
   target, topic the handler was registered under>> *)
HandlerCalls(tr, n) ==
    LET calls == SelectSeq(tr, LAMBDA o : o.op = "handler" /\ o.n = n)
    IN  [k \in 1..Len(calls) |-> <<calls[k].a, calls[k].b, calls[k].t>>]

(* What a publish of event target e under type has to call, given the
   callbacks registered at its entry *)
Expected(entry, e, type) ==
    [k \in 1..Len(entry) |-> <<entry[k].id, e, type>>]

Mutating(entry) ==
    \E k \in 1..Len(entry) : entry[k].does \in {"subscribe", "clear", "publish"}

IsPrefix(s1, s2) == Len(s1) <= Len(s2) /\ SubSeq(s2, 1, Len(s1)) = s1

(* C8: a dispatchEvent(type, event) call has, when it returns, called every
   handler registered under type once per registration, in registration
   order, with the event, and no handler registered under another topic;
   with no handler registered for type it calls nothing and changes
   nothing. *)
C8_PublishCallsEveryHandlerInOrder ==
    [][lastCall'.op = "dispatchEvent" =>
          LET type == lastCall'.t
              entry == Registered(listeners, arrays, plainDispatcher, type)
          IN  /\ HandlerCalls(trace', 1) = Expected(entry, lastCall'.b, type)
              /\ entry = <<>> =>
                    /\ HandlerCalls(trace', 2) = <<>>
                    /\ UNCHANGED <<listeners, arrays, actorObjs, sceneObjs,
                                   game, receiver>>
      ]_vars

(* A publish has called three handlers, and another topic has a handler
   that was not called. *)
C8_Witness ==
    /\ lastCall.op = "dispatchEvent"
    /\ lastCall.t = "hit"
    /\ Len(HandlerCalls(trace, 1)) = 3
    /\ HandlerCalls(trace, 1)[1][1] # HandlerCalls(trace, 1)[2][1]
    /\ Registered(listeners, arrays, plainDispatcher, "destroy") = <<>>

(* C9: when a handler subscribes a handler to the same topic, clears the
   dispatcher or publishes again while a publish is calling it, that publish
   still calls exactly the handlers registered at its entry, once each and
   in order, and leaves a well-formed registry: without a clear the topic's
   list still starts with the entry list. *)
C9_PublishIteratesEntryHandlers ==
    [][(lastCall'.op = "dispatchEvent"
           /\ Mutating(Registered(listeners, arrays, plainDispatcher,
                                  lastCall'.t))) =>
          LET type == lastCall'.t
              entry == Registered(listeners, arrays, plainDispatcher, type)
              after == Registered(listeners', arrays', plainDispatcher, type)
          IN  /\ HandlerCalls(trace', 1) = Expected(entry, lastCall'.b, type)
              /\ \A t \in Topics :
                    listeners'[plainDispatcher][t]
                        \in 0..Len(arrays'[plainDispatcher][t])
              /\ (\A k \in 1..Len(entry) : entry[k].does # "clear")
                    => IsPrefix(entry, after)
      ]_vars

(* A publish has called a subscribing handler first and another handler
   after it, and the handler subscribed meanwhile is registered now. *)
C9_Witness ==
    /\ lastCall.op = "dispatchEvent"
    /\ Len(HandlerCalls(trace, 1)) = 2
    /\ HandlerCalls(trace, 1)[1][1] = "h2"
    /\ LET after == Registered(listeners, arrays, plainDispatcher, lastCall.t)
       IN  Len(after) = 3 /\ after[3].id = "late"

---------------------------------------------------------------------------
(* Claims about Scene, checked under SpecScene *)

(* Reading the trace of a Scene.update call *)
IndexOfOp(tr, op) ==
    IF \E k \in 1..Len(tr) : tr[k].op = op
    THEN CHOOSE k \in 1..Len(tr) :
             tr[k].op = op /\ \A m \in 1..(k - 1) : tr[m].op # op
    ELSE 0

Has(tr, op) == IndexOfOp(tr, op) > 0

(* The part of the trace before / from the start of the collision pass *)
UpdatePass(tr) ==
    IF Has(tr, "_hitTest") THEN SubSeq(tr, 1, IndexOfOp(tr, "_hitTest") - 1)
    ELSE tr
AfterUpdatePass(tr) ==
    IF Has(tr, "_hitTest") THEN SubSeq(tr, IndexOfOp(tr, "_hitTest"), Len(tr))
    ELSE <<>>

Published(tr, type) ==
    SelectSeq(tr, LAMBDA o : o.op = "dispatchEvent" /\ o.t = type)

(* The actors that called destroy() in a part of the trace *)
Destroyers(tr) ==
    {Published(tr, "destroy")[k].a : k \in 1..Len(Published(tr, "destroy"))}

Called(tr, op, actor) == \E k \in 1..Len(tr) : tr[k].op = op /\ tr[k].a = actor

Without(arr, D) == SelectSeq(arr, LAMBDA a : a \notin D)

(* C1: when a set D of the scene's actors call destroy() during the update
   pass of a frame (no actor spawns and none calls destroy() later in the
   frame), then after Scene.update
   the live collection holds exactly the actors not in D, in their original
   relative order, and the pending-destroy list is empty. *)
C1_DestroyedActorsAreRemoved ==
    [][(lastCall'.op = "Scene.update"
           /\ Published(trace', "spawnactor") = <<>>
           /\ Destroyers(AfterUpdatePass(trace')) = {}) =>
          /\ sceneObjs'[theScene].actors
                 = Without(sceneObjs[theScene].actors,
                           Destroyers(UpdatePass(trace')))
          /\ sceneObjs'[theScene]._destroyedActors = <<>>
      ]_vars

Spawned(tr) ==
    {Published(tr, "spawnactor")[k].b :
         k \in 1..Len(Published(tr, "spawnactor"))}

(* C2: when an actor calls spawnActor(D) during its update in a frame, D's
   update is not called in that frame, D is in the live collection for that
   frame's collision pass and is rendered in its render pass, and D's update
   is called in the next frame's update pass. *)
C2_SpawnedActorJoinsThisFrame ==
    /\ [](lastCall.op = "Scene.update" =>
             \A d \in Spawned(UpdatePass(trace)) :
                 /\ ~Called(trace, "update", d)
                 /\ Has(trace, "_hitTest")
                 /\ d \in Range(trace[IndexOfOp(trace, "_hitTest")].b)
                 /\ Called(trace, "render", d))
    /\ [][(lastCall.op = "Scene.update" /\ lastCall'.op = "Scene.update") =>
             \A d \in Spawned(UpdatePass(trace)) : Called(trace', "update", d)
         ]_vars

(* The hit events a frame published on actor `on` with target `target` *)
HitCount(tr, on, target) ==
    Len(SelectSeq(Published(tr, "hit"),
                  LAMBDA o : o.a = on /\ o.b = target))

(* C3: in a collision pass that ran to its end, for every pair i < j of the
   live collection as the update pass left it, one hit event is published
   on each of the two actors with the other as its target when their hit
   rectangles overlap, and none when they do not; no other hit event is
   published. *)
C3_HitEventsMatchOverlappingPairs ==
    (lastCall.op = "Scene.update" /\ Has(trace, "_disposeDestroyedActors")) =>
        LET live == trace[IndexOfOp(trace, "_hitTest")].b
            Pairs == {p \in (1..Len(live)) \X (1..Len(live)) : p[1] < p[2]}
            Overlap(p) == hitTest(actorObjs[live[p[1]]].hitArea,
                                  actorObjs[live[p[2]]].hitArea)
        IN  /\ \A p \in Pairs :
                  /\ HitCount(trace, live[p[1]], live[p[2]])
                         = IF Overlap(p) THEN 1 ELSE 0
                  /\ HitCount(trace, live[p[2]], live[p[1]])
                         = IF Overlap(p) THEN 1 ELSE 0
            /\ Len(Published(trace, "hit"))
                   = 2 * Cardinality({p \in Pairs : Overlap(p)})

(* A frame over A, B, C in which A and B overlap, B and C overlap and A and
   C do not: four hit events, none between A and C. *)
C3_Witness ==
    /\ lastCall.op = "Scene.update"
    /\ Has(trace, "_disposeDestroyedActors")
    /\ trace[IndexOfOp(trace, "_hitTest")].b = <<"A", "B", "C">>
    /\ Len(Published(trace, "hit")) = 4
    /\ HitCount(trace, "A", "B") = 1 /\ HitCount(trace, "C", "B") = 1
    /\ HitCount(trace, "A", "C") = 0
    /\ ~hitTest(actorObjs["A"].hitArea, actorObjs["C"].hitArea)

(* C6: Scene.remove(actor) with an actor that is not in the live collection
   does not fail and leaves the collection as it was; with an actor that is
   in it, it removes that actor and no other. *)
C6_RemoveOfAbsentActorIsNoOp ==
    [][lastCall'.op = "Scene.remove" =>
          /\ ~thrown'
          /\ sceneObjs'[theScene].actors
                 = Without(sceneObjs[theScene].actors, {lastCall'.b})
      ]_vars

Count(tr, op) == Len(SelectSeq(tr, LAMBDA o : o.op = op))

(* The objects on which op was called, in call order *)
CalledOn(tr, op) ==
    LET calls == SelectSeq(tr, LAMBDA o : o.op = op)
    IN  [k \in 1..Len(calls) |-> calls[k].a]

(* C14: every Scene.update runs the update pass, the collision pass, the
   cleanup, the clearing of the screen and the render pass once each and in
   this order: update is called on the actors of the collection, every hit
   event is published after all update calls and before the cleanup, the
   screen is cleared after the cleanup and before any render, and render is
   called once on each actor the cleanup left in the collection, in
   collection order, and on no other. *)
C14_PassesRunOnceInOrder ==
    [][lastCall'.op = "Scene.update" =>
          LET tr == trace'
              h == IndexOfOp(tr, "_hitTest")
              d == IndexOfOp(tr, "_disposeDestroyedActors")
              c == IndexOfOp(tr, "_clearScreen")
          IN  /\ Count(tr, "_hitTest") = 1
              /\ Count(tr, "_disposeDestroyedActors") = 1
              /\ Count(tr, "_clearScreen") = 1
              /\ h < d /\ d < c
              /\ \A k \in 1..Len(tr) :
                    /\ tr[k].op = "update" => k < h
                    /\ (tr[k].op = "dispatchEvent" /\ tr[k].t = "hit") =>
                          (h < k /\ k < d)
                    /\ tr[k].op = "render" => c < k
              /\ CalledOn(tr, "update") = sceneObjs[theScene].actors
              /\ CalledOn(tr, "render") = sceneObjs'[theScene].actors
      ]_vars

BeforeCleanup(tr) ==
    IF Has(tr, "_disposeDestroyedActors")
    THEN SubSeq(tr, 1, IndexOfOp(tr, "_disposeDestroyedActors") - 1)
    ELSE tr

RenderPass(tr) ==
    IF Has(tr, "_clearScreen")
    THEN SubSeq(tr, IndexOfOp(tr, "_clearScreen"), Len(tr))
    ELSE <<>>

(* C16, checked under SpecSceneDestroy: destroy() called between two frames leaves the live collection as
   it is and adds one entry to the pending list; in a frame, no actor has
   left the collection when the collision pass begins, so an actor that
   called destroy() earlier, in this frame's update pass or in a hit handler,
   is pair-tested with every other actor: it gets and causes one hit event
   per overlapping partner and none otherwise; an actor that calls destroy()
   in the render pass is in the collection when the frame ends. *)
C16_DestroyedActorStaysUntilCleanup ==
    [][/\ lastCall'.op = "destroy" =>
            /\ ~thrown'
            /\ sceneObjs'[theScene].actors = sceneObjs[theScene].actors
            /\ Len(sceneObjs'[theScene]._destroyedActors)
                   = Len(sceneObjs[theScene]._destroyedActors) + 1
       /\ (lastCall'.op = "Scene.update"
              /\ Has(trace', "_disposeDestroyedActors")) =>
            LET entry == trace'[IndexOfOp(trace', "_hitTest")].b
                Overlap(a, b) == hitTest(actorObjs'[a].hitArea,
                                         actorObjs'[b].hitArea)
            IN  /\ Range(sceneObjs[theScene].actors) \subseteq Range(entry)
                /\ \A d \in Destroyers(BeforeCleanup(trace')) :
                      \A o \in Range(entry) \ {d} :
                          /\ HitCount(trace', d, o)
                                 = IF Overlap(d, o) THEN 1 ELSE 0
                          /\ HitCount(trace', o, d)
                                 = IF Overlap(d, o) THEN 1 ELSE 0
       /\ lastCall'.op = "Scene.update" =>
            Destroyers(RenderPass(trace'))
                \subseteq Range(sceneObjs'[theScene].actors)
      ]_vars

(* A called destroy() in its update and was still tested against B in the
   same frame: each got a hit event with the other as target. *)
C16_Witness ==
    /\ lastCall.op = "Scene.update"
    /\ "A" \in Destroyers(UpdatePass(trace))
    /\ HitCount(trace, "A", "B") = 1
    /\ HitCount(trace, "B", "A") = 1

DestroyCalls(tr, actor) ==
    Len(SelectSeq(Published(tr, "destroy"), LAMBDA o : o.a = actor))

(* C19, checked under SpecSceneDestroy: in a frame that begins with an empty
   pending list and in which one actor d, and no other, calls destroy(), and
   does so more than once before the cleanup (in its update and in its hit
   handler, or in its hit handler for two partners), the cleanup removes d
   and no other actor: the collection is the one of the frame's start
   without d. *)
C19_RepeatedDestroyRemovesOneActor ==
    [][(lastCall'.op = "Scene.update"
           /\ sceneObjs[theScene]._destroyedActors = <<>>
           /\ Destroyers(RenderPass(trace')) = {}) =>
          \A d \in Range(sceneObjs[theScene].actors) :
              (Destroyers(trace') = {d} /\ DestroyCalls(trace', d) > 1) =>
                  sceneObjs'[theScene].actors
                      = Without(sceneObjs[theScene].actors, {d})
      ]_vars

(* C15, checked under SpecSceneEdit: when actors' updates or hit handlers
   call Scene.add or Scene.remove during a frame, update is still called
   once on each actor that was in the collection when the update pass
   began, in order, the frame does not fail on a missing slot, and every
   overlapping pair of the collection as it stood when the collision pass
   began gets its two hit events. *)
C15_PassesIterateEntryCollection ==
    [][lastCall'.op = "Scene.update" =>
          /\ CalledOn(trace', "update") = sceneObjs[theScene].actors
          /\ ~thrown'
          /\ Has(trace', "_hitTest") =>
                LET entry == trace'[IndexOfOp(trace', "_hitTest")].b
                IN  \A i, j \in 1..Len(entry) :
                        (i < j /\ hitTest(actorObjs'[entry[i]].hitArea,
                                          actorObjs'[entry[j]].hitArea)) =>
                            /\ HitCount(trace', entry[i], entry[j]) = 1
                            /\ HitCount(trace', entry[j], entry[i]) = 1
      ]_vars

---------------------------------------------------------------------------
(* Claims about Game, checked under SpecGame *)

(* C4: a _loop callback whose elapsed time since the last executed frame is
   at most the frame budget, (1 / maxFps) * 0.9 seconds, updates no scene
   and renders nothing, leaves _prevTimestamp, currentFps, currentScene and
   the input receiver's _prevKeyMap as they were, and requests one next
   callback. *)
C4_GatedTickDoesNothing ==
    [][(lastCall'.op = "_loop"
           /\ 10 * (now' - game._prevTimestamp) * game.maxFps <= 9 * 1000) =>
          /\ ~Has(trace', "Scene.update")
          /\ ~Has(trace', "render")
          /\ game' = game
          /\ receiver' = receiver
          /\ lastInput' = lastInput
          /\ sceneObjs' = sceneObjs
          /\ actorObjs' = actorObjs
          /\ raf' = raf
          /\ ~thrown'
      ]_vars

(* After an executed frame, a callback came exactly one frame budget later
   and was gated. *)
C4_Witness ==
    /\ lastCall.op = "_loop"
    /\ game._prevTimestamp > 0
    /\ 10 * (now - game._prevTimestamp) * game.maxFps = 9 * 1000
    /\ trace = <<>>
    /\ raf = 1

Sampled(op, tr) == op = "_loop" /\ Has(tr, "getInput")

Pressed(map, key) == key \in DOMAIN map /\ map[key]

(* C13: the first sample's previous map is empty and every later sample's
   previous map is the current map of the sample before it; a sample's
   current map is the receiver's key map at the call; snapshots handed out
   are not changed by keydown or keyup, and the older one is not changed by
   the next sample; getKeyDown is "not previous and current" and getKeyUp is
   "previous and not current" on the snapshot's own two maps. *)
C13_PreviousIsLastSampleCurrent ==
    /\ [](/\ Len(lastInput) = 1 => lastInput[1].prevKeyMap = emptyMap
          /\ Len(lastInput) = 2 =>
                lastInput[2].prevKeyMap = lastInput[1].keyMap
          /\ \A i \in DOMAIN lastInput : \A key \in Keys :
                /\ getKeyDown(lastInput[i], key)
                      <=> (~Pressed(lastInput[i].prevKeyMap, key)
                              /\ Pressed(lastInput[i].keyMap, key))
                /\ getKeyUp(lastInput[i], key)
                      <=> (Pressed(lastInput[i].prevKeyMap, key)
                              /\ ~Pressed(lastInput[i].keyMap, key)))
    /\ [][/\ lastCall'.op \in {"keydown", "keyup"} => lastInput' = lastInput
          /\ Sampled(lastCall'.op, trace') =>
                /\ lastInput'[Len(lastInput')].keyMap = receiver._keyMap
                /\ lastInput # <<>> =>
                      lastInput'[1] = lastInput[Len(lastInput)]
          /\ (lastCall'.op = "_loop" /\ ~Has(trace', "getInput")) =>
                lastInput' = lastInput
      ]_vars

(* Two samples: z was down at the first and up at the second, so the second
   reports key-up and no key-down; z has been pressed again since. *)
C13_Witness ==
    /\ Len(lastInput) = 2
    /\ Pressed(lastInput[1].keyMap, "z")
    /\ ~Pressed(lastInput[2].keyMap, "z")
    /\ getKeyUp(lastInput[2], "z") /\ ~getKeyDown(lastInput[2], "z")
    /\ lastCall.op = "keydown"
    /\ Pressed(receiver._keyMap, "z")

(* C5: when the active scene calls changeScene(S2), the game's current
   scene is S2 afterwards and the game is subscribed to S2's changescene
   topic, so that a later S2.changeScene(S3) switches again. *)
C5_ChangeSceneSwitchesActiveScene ==
    [][(lastCall'.op = "Scene.changeScene"
           /\ lastCall'.a = game.currentScene) =>
          /\ ~thrown'
          /\ game'.currentScene = lastCall'.b
          /\ GameChangeSceneClosure
                 \in Range(Registered(listeners', arrays', lastCall'.b,
                                      "changescene"))
      ]_vars

(* C17: a changescene event published by a scene that is not the game's
   current scene (one the game has switched away from, or one it never
   showed) does not change the game's current scene. *)
C17_OnlyActiveSceneSwitches ==
    [][(lastCall'.op = "Scene.changeScene"
           /\ lastCall'.a # game.currentScene) =>
          game'.currentScene = game.currentScene
      ]_vars

(* C18: from start() on, one _loop callback is pending at every moment. *)
C18_OneTickAlwaysPending ==
    lastCall.op # "" => raf = 1

(* C20: in an executed frame in which an actor's update asks for a change to
   scene S2, the scene that was current still runs its collision pass, its
   cleanup, the clearing and the render pass, S2 is the current scene when
   the frame ends and the next callback is requested; every executed frame
   updates one scene, the one that was current when the callback began. *)
C20_SceneChangeTakesEffectNextTick ==
    [][lastCall'.op = "_loop" =>
          /\ Published(trace', "changescene") # <<>> =>
                /\ Has(trace', "_hitTest")
                /\ Has(trace', "_disposeDestroyedActors")
                /\ Has(trace', "_clearScreen")
                /\ ~thrown'
                /\ game'.currentScene = Published(trace', "changescene")[1].b
                /\ raf' = 1
          /\ Has(trace', "getInput") =>
                /\ Count(trace', "Scene.update") = 1
                /\ trace'[IndexOfOp(trace', "Scene.update")].a
                       = game.currentScene
      ]_vars

====
